---- MODULE Spec2Model ----
(***************************************************************************)
(* Snake game (main.py, scoreboard.py): the controller of one run, from    *)
(* the first speed prompt to the final wait in WINDOW.exitonclick().       *)
(*                                                                         *)
(* The program is single threaded.  Window events (the close button, the   *)
(* arrow keys) are dispatched only while the main thread is inside a call  *)
(* that runs the Tk event loop: WINDOW.update(), WINDOW.textinput(), the   *)
(* display refresh inside snake.move() and WINDOW.exitonclick().  The      *)
(* variable pc names the call the main thread is blocked in; everything    *)
(* the code does between two such calls is one action.  Event dispatch     *)
(* that the turtle library performs on its own inside other calls is not   *)
(* modelled, nor is a close notification that arrives before on_close is   *)
(* registered (main.py line 184), which the library handles itself.        *)
(*                                                                         *)
(* snake.py and food.py are not part of the sources at hand: Snake and     *)
(* Food are modelled from the design document (sections 3, 4.1 and 4.2).   *)
(***************************************************************************)
EXTENDS Integers, Sequences, FiniteSets, TLC

VARIABLES
    pc,            \* the blocking call the main thread is in
    session,       \* number of calls of main() so far
    game_on,       \* global game_on
    is_on_close,   \* global is_on_close
    registered,    \* on_close is the WM_DELETE_WINDOW handler
    window,        \* "open" or "destroyed"
    destroys,      \* number of executions of tk_window.destroy()
    destroyedAt,   \* pc at which tk_window.destroy() ran, or "none"
    screen,        \* what was drawn last
    keysBound,     \* the arrow keys are bound to this session's snake
    turtles,       \* snake.turtles: positions, the head is the last entry
    heading,       \* heading used by the last advance
    pending,       \* heading requested by the last key press
    prevTail,      \* position of the tail before the last advance
    food,          \* position of the food
    score,         \* score.score, NoScore before a Score exists
    file,          \* content of last-score.txt, NoFile when absent
    tick,          \* ticks begun in this session
    overs,         \* executions of score.game_over in this session
    saves,         \* executions of score.save_score in this session
    summary,       \* best score written by the last game-over summary
    speed,         \* validated speed of this session, NoSpeed before
    made,          \* Food, Snake and Score were created in this session
    cancelled,     \* a speed prompt has been cancelled (history)
    closedInPause, \* on_close ran during the game-over presentation (history)
    cause,         \* what cleared game_on in this session, "none" before
    input,         \* the value the last textinput returned
    writable       \* last-score.txt can be written

vars == << pc, session, game_on, is_on_close, registered, window, destroys,
           destroyedAt, screen, keysBound, turtles, heading, pending,
           prevTail, food, score, file, tick, overs, saves, summary, speed,
           made, cancelled, closedInPause, cause, input, writable >>

(***************************************************************************)
(* Bounds of the exploration.                                              *)
(***************************************************************************)
MaxSessions == 2      \* calls of main() in one run
MaxKeyTick  == 3      \* arrow keys are pressed during the first ticks only

(***************************************************************************)
(* Program constants.                                                      *)
(***************************************************************************)
XLimit       == 485   \* main.py line 210
YLimit       == 385   \* main.py line 210
EatDistance  == 15    \* main.py line 222
HitDistance  == 10    \* main.py line 232
SnakeLength  == 6     \* main.py line 192
MinSpeed     == 10    \* main.py line 138
MaxSpeed     == 20    \* main.py line 138
Step         == 20    \* distance moved per tick (design document, 3)

\* values standing for "nothing there"; a text is never one of the first two
None      == << "<None>" >>      \* Python's None, as a prompt's result
NoFile    == << "<absent>" >>    \* last-score.txt does not exist
NoScore   == 0 - 1
NoSpeed   == 0 - 1
NoSummary == 0 - 1

(***************************************************************************)
(* Text.  A text is a sequence of characters; the record file, the prompt  *)
(* answers and the formatted score are texts.                              *)
(***************************************************************************)
Digits == << "0", "1", "2", "3", "4", "5", "6", "7", "8", "9" >>

DigitValue(c) == (CHOOSE i \in 1..10 : Digits[i] = c) - 1

\* characters for which str.isdigit() is true and which int() rejects;
\* "^2" stands for the superscript two, U+00B2
Superscripts == { "^2" }

\* every character is a decimal digit
IsDecimal(t) == \A i \in 1..Len(t) : \E d \in 1..10 : Digits[d] = t[i]

\* str.isdigit(): non-empty and every character a digit, decimal or not
IsDigit(t) ==
    /\ Len(t) > 0
    /\ \A i \in 1..Len(t) :
          (\E d \in 1..10 : Digits[d] = t[i]) \/ t[i] \in Superscripts

\* int(t) raises ValueError on a text str.isdigit() accepts
IntRaises(t) == IsDigit(t) /\ ~IsDecimal(t)

RECURSIVE ParseInt(_)
\* int(text) for a text of decimal digits
ParseInt(t) ==
    IF Len(t) = 0 THEN 0
    ELSE 10 * ParseInt(SubSeq(t, 1, Len(t) - 1)) + DigitValue(t[Len(t)])

RECURSIVE FormatInt(_)
\* f"{n}" for n >= 0
FormatInt(n) ==
    IF n < 10 THEN << Digits[n + 1] >>
    ELSE Append(FormatInt(n \div 10), Digits[(n % 10) + 1])

\* str(x): the text itself, or the text "None"
Str(a) == IF a = None THEN << "N", "o", "n", "e" >> ELSE a

\* str.lower() on the characters the answers use
LowerChar(c) == IF c = "Y" THEN "y" ELSE IF c = "N" THEN "n" ELSE c

Lower(t) == [i \in 1..Len(t) |-> LowerChar(t[i])]

(***************************************************************************)
(* Inputs.                                                                 *)
(***************************************************************************)
SpeedInputs  == { None, <<"1","0">>, <<"2","0">>, <<"2","1">>, <<"9">>,
                  <<"x">>, << >>, <<"^2">> }
ReplayInputs == { None, <<"y">>, <<"Y">>, <<"n">>, <<"N">>, <<"x">> }
FoodSpots    == { <<40, 0>>, <<90, 10>> }
InitRecords  == { NoFile, <<"0">>, <<"2">> }
Directions   == { "Up", "Down", "Left", "Right" }

(***************************************************************************)
(* Geometry.  A position is a pair <<x, y>>.                               *)
(***************************************************************************)
DistSq(p, q) == (p[1] - q[1]) * (p[1] - q[1]) + (p[2] - q[2]) * (p[2] - q[2])

\* a.distance(b) < d, for integer coordinates
Within(p, q, d) == DistSq(p, q) < d * d

Delta(h) ==
    CASE h = "Up"    -> << 0, Step >>
      [] h = "Down"  -> << 0, 0 - Step >>
      [] h = "Left"  -> << 0 - Step, 0 >>
      [] h = "Right" -> << Step, 0 >>

\* snake.head
head(ts) == ts[Len(ts)]

\* Snake(length=6): a row of segments ending in the head at the origin
InitTurtles == [i \in 1..SnakeLength |-> << 0 - Step * (SnakeLength - i), 0 >>]

\* snake.move: every segment takes the place of the one in front of it,
\* then the head moves one step in the heading
Advance(ts, h) ==
    [i \in 1..Len(ts) |->
        IF i < Len(ts) THEN ts[i + 1]
        ELSE << ts[i][1] + Delta(h)[1], ts[i][2] + Delta(h)[2] >>]

\* snake.snake_extend: a new segment on the slot the tail vacated
Extend(ts, vacated) == << vacated >> \o ts

\* the limits taken as part of the outside
OutOfBounds_Inclusive(p) ==
    \/ p[1] >= XLimit
    \/ p[1] <= 0 - XLimit
    \/ p[2] >= YLimit
    \/ p[2] <= 0 - YLimit

\* main.py line 210
OutOfBounds(p) ==
    (p[1] > XLimit \/ p[1] < 0 - XLimit) \/ (p[2] > YLimit \/ p[2] < 0 - YLimit)

\* main.py line 222
Eats(p, f) == Within(p, f, EatDistance)

\* the slice [:-1]: only the head itself left out
SelfHit_All(ts) ==
    \E i \in 1..(Len(ts) - 1) : Within(head(ts), ts[i], HitDistance)

\* main.py lines 230-232: the head against snake.turtles[:-2]
SelfHit(ts) ==
    \E i \in 1..(Len(ts) - 2) : Within(head(ts), ts[i], HitDistance)

(***************************************************************************)
(* Decisions of the controller.                                            *)
(***************************************************************************)
\* main.py line 138: the loop condition is the negation of this
ValidSpeed(t) ==
    ~(~IsDigit(Str(t)) \/ ParseInt(Str(t)) > MaxSpeed \/ ParseInt(Str(t)) < MinSpeed)

\* line 170 without its test of is_on_close
CloseDestroys_NoFlag(g, c) == ~g

\* main.py line 170
CloseDestroys(g, c) == ~g /\ c

\* main.py lines 255-259: the value main() returns
MainResult(c) == ~c

\* line 271 without its test
ReplayGuard_Always(c) == TRUE

\* main.py line 271
ReplayGuard(c) == ~c

\* line 127 saving on every game over
IsRecord_Always(s, b) == TRUE

\* line 127 with >= for >
IsRecord_OrEqual(s, b) == s >= b

\* scoreboard.py line 127
IsRecord(s, b) == s > b

\* two points for one food
Increment_Two(s) == s + 2

\* main.py line 226
Increment(s) == s + 1

\* scoreboard.py lines 83-94; the file exists whenever a Score exists
read_file_score(f) == ParseInt(f)

\* scoreboard.py lines 67-79
save_score(s) == FormatInt(s)

(***************************************************************************)
(* Groups of variables.                                                    *)
(***************************************************************************)
snakeVars == << turtles, heading, pending, prevTail, food, tick >>
scoreVars == << score, file, overs, saves, summary >>
winVars   == << window, destroys, destroyedAt >>
flagVars  == << game_on, is_on_close, cause >>
histVars  == << cancelled, closedInPause, writable >>
sessVars  == << session, registered, speed, made, input >>

\* a window or turtle operation on a destroyed window raises TclError,
\* which nothing catches: the program ends
Raise ==
    /\ pc' = "TclError"
    /\ UNCHANGED << snakeVars, scoreVars, winVars, flagVars, histVars,
                    sessVars, screen, keysBound >>

Init ==
    /\ pc = "speed_prompt"
    /\ session = 1
    /\ game_on = TRUE
    /\ is_on_close = FALSE
    /\ registered = FALSE
    /\ window = "open"
    /\ destroys = 0
    /\ destroyedAt = "none"
    /\ screen = "blank"
    /\ keysBound = FALSE
    /\ turtles = << >>
    /\ heading = "Right"
    /\ pending = "Right"
    /\ prevTail = << 0, 0 >>
    /\ food = << 0, 0 >>
    /\ score = NoScore
    /\ file \in InitRecords
    /\ writable \in BOOLEAN
    /\ file = NoFile => writable
    /\ cause = "none"
    /\ input = None
    /\ tick = 0
    /\ overs = 0
    /\ saves = 0
    /\ summary = NoSummary
    /\ speed = NoSpeed
    /\ made = FALSE
    /\ cancelled = FALSE
    /\ closedInPause = FALSE

\* where control goes when main() returns r: the first call is the
\* condition of the if at line 262, later calls are statements of the
\* replay loop whose value is dropped (line 280)
AfterMain(r) ==
    IF session = 1 /\ ~r THEN "exitonclick" ELSE "replay_check"

(***************************************************************************)
(* Window events.                                                          *)
(***************************************************************************)
EventPcs == { "speed_prompt", "speed_reprompt", "hint_update", "start_update",
              "move_update", "game_over_update", "replay_prompt",
              "invalid_update", "exitonclick" }

\* on_close, the handler of the window's close button.  Destroying the
\* window inside the final event loop ends the program.
OnClose ==
    /\ pc \in EventPcs
    /\ registered
    /\ window = "open"
    /\ IF CloseDestroys(game_on, is_on_close)
       THEN /\ window' = "destroyed"
            /\ destroys' = destroys + 1
            /\ destroyedAt' = pc
            /\ screen' = screen
            /\ pc' = IF pc = "exitonclick" THEN "exited" ELSE pc
       ELSE /\ screen' = "farewell"
            /\ UNCHANGED << winVars, pc >>
    /\ game_on' = FALSE
    /\ is_on_close' = TRUE
    /\ cause' = IF game_on THEN "close" ELSE cause
    /\ closedInPause' = (closedInPause \/ pc = "game_over_update")
    /\ UNCHANGED << snakeVars, scoreVars, sessVars, keysBound, cancelled,
                    writable >>

\* snake.up, snake.down, snake.left, snake.right, bound by WINDOW.onkey
KeyPress(d) ==
    /\ pc \in { "move_update", "game_over_update" }
    /\ keysBound
    /\ window = "open"
    /\ tick <= MaxKeyTick
    /\ d # pending
    /\ pending' = d
    /\ UNCHANGED << pc, turtles, heading, prevTail, food, tick, scoreVars,
                    winVars, flagVars, histVars, sessVars, screen, keysBound >>

(***************************************************************************)
(* main(): the speed prompt.                                               *)
(***************************************************************************)
SpeedPcs == { "speed_prompt", "speed_reprompt" }

\* textinput returned None: lines 128-133 and 149-153
SpeedCancel ==
    /\ pc \in SpeedPcs
    /\ IF window = "destroyed"
       THEN Raise
       ELSE /\ input' = None
            /\ screen' = "farewell"
            /\ cancelled' = TRUE
            /\ pc' = AfterMain(FALSE)
            /\ UNCHANGED << snakeVars, scoreVars, winVars, flagVars, session,
                            registered, speed, made, keysBound,
                            closedInPause, writable >>

\* textinput returned a text the loop at line 138 rejects
SpeedInvalid(t) ==
    /\ pc \in SpeedPcs
    /\ window = "open"
    /\ t # None
    /\ ~IntRaises(Str(t))
    /\ ~ValidSpeed(t)
    /\ input' = t
    /\ screen' = "hint"
    /\ pc' = "hint_update"
    /\ UNCHANGED << snakeVars, scoreVars, winVars, flagVars, histVars,
                    session, registered, speed, made, keysBound >>

\* textinput returned a text that passes str.isdigit() and on which int()
\* raises ValueError at line 138; nothing catches it
SpeedRaises(t) ==
    /\ pc \in SpeedPcs
    /\ window = "open"
    /\ t # None
    /\ IntRaises(Str(t))
    /\ input' = t
    /\ pc' = "ValueError"
    /\ UNCHANGED << snakeVars, scoreVars, winVars, flagVars, histVars,
                    session, registered, speed, made, screen, keysBound >>

\* lines 142-146: back from WINDOW.update(), the prompt is opened again
HintReturn ==
    /\ pc = "hint_update"
    /\ IF window = "destroyed"
       THEN Raise
       ELSE /\ screen' = "blank"
            /\ pc' = "speed_reprompt"
            /\ UNCHANGED << snakeVars, scoreVars, winVars, flagVars, histVars,
                            sessVars, keysBound >>

\* textinput returned a valid speed: on_close is registered and the start
\* screen is drawn, lines 158-188 and 58-83
SpeedValid(t) ==
    /\ pc \in SpeedPcs
    /\ window = "open"
    /\ t # None
    /\ ~IntRaises(Str(t))
    /\ ValidSpeed(t)
    /\ input' = t
    /\ registered' = TRUE
    /\ speed' = ParseInt(Str(t))
    /\ screen' = "welcome"
    /\ pc' = "start_update"
    /\ UNCHANGED << snakeVars, scoreVars, winVars, flagVars, histVars,
                    session, made, keysBound >>

\* lines 84-85 and 190-196: the game objects are created
StartReturn ==
    /\ pc = "start_update"
    /\ IF window = "destroyed"
       THEN Raise
       ELSE /\ \E f \in FoodSpots : food' = f
            /\ turtles' = InitTurtles
            /\ heading' = "Right"
            /\ pending' = "Right"
            /\ prevTail' = InitTurtles[1]
            /\ score' = 0
            /\ file' = IF file = NoFile THEN << "0" >> ELSE file
            /\ made' = TRUE
            /\ screen' = "blank"
            /\ pc' = "loop"
            /\ UNCHANGED << tick, overs, saves, summary, winVars, flagVars,
                            histVars, session, registered, speed, input,
                            keysBound >>

(***************************************************************************)
(* main(): the play loop, lines 199-259.                                   *)
(***************************************************************************)
\* lines 199-207: the loop test, score.score_update and snake.move up to
\* its display refresh
TickBegin ==
    /\ pc = "loop"
    /\ game_on
    /\ IF window = "destroyed"
       THEN Raise
       ELSE /\ screen' = "play"
            /\ heading' = pending
            /\ prevTail' = turtles[1]
            /\ turtles' = Advance(turtles, pending)
            /\ tick' = tick + 1
            /\ pc' = "move_update"
            /\ UNCHANGED << pending, food, scoreVars, winVars, flagVars,
                            histVars, sessVars, keysBound >>

\* score.game_over up to its window.update(), scoreboard.py lines 126-154
\* when the record cannot be written, open() in save_score raises OSError,
\* which nothing catches
GameOver ==
    /\ overs' = overs + 1
    /\ IF IsRecord(score, read_file_score(file)) /\ ~writable
       THEN /\ pc' = "OSError"
            /\ UNCHANGED << file, saves, summary, screen >>
       ELSE /\ file' = IF IsRecord(score, read_file_score(file))
                       THEN save_score(score) ELSE file
            /\ saves' = IF IsRecord(score, read_file_score(file))
                        THEN saves + 1 ELSE saves
            /\ summary' = read_file_score(file')
            /\ screen' = "game_over"
            /\ pc' = "game_over_update"

\* game_on left as it is by a collision
Stopped_Not == TRUE

\* lines 212 and 234: the value a collision assigns to game_on
Stopped == FALSE

\* lines 212-219 and 234-242: the session is stopped and game over shown;
\* hiding the score on a destroyed window raises
Collision(c) ==
    /\ game_on' = Stopped
    /\ cause' = c
    /\ IF window = "destroyed"
       THEN /\ pc' = "TclError"
            /\ UNCHANGED << file, saves, summary, overs, screen >>
       ELSE GameOver
    /\ UNCHANGED << snakeVars, score, winVars, is_on_close, histVars,
                    sessVars, keysBound >>

\* lines 245-250: WINDOW.listen and the four WINDOW.onkey
BindKeys ==
    /\ keysBound' = TRUE
    /\ pc' = "loop"

\* line 210: the head left the field
TickBoundary ==
    /\ pc = "move_update"
    /\ OutOfBounds(head(turtles))
    /\ Collision("boundary")

\* lines 222-226: the head reached the food
TickEat ==
    /\ pc = "move_update"
    /\ ~OutOfBounds(head(turtles))
    /\ Eats(head(turtles), food)
    /\ IF window = "destroyed"
       THEN Raise
       ELSE /\ \E f \in FoodSpots : food' = f
            /\ turtles' = Extend(turtles, prevTail)
            /\ score' = Increment(score)
            /\ BindKeys
            /\ UNCHANGED << heading, pending, prevTail, tick, file, overs,
                            saves, summary, winVars, flagVars, histVars,
                            sessVars, screen >>

\* lines 228-242: the head touches a segment of snake.turtles[:-2]
TickSelfHit ==
    /\ pc = "move_update"
    /\ ~OutOfBounds(head(turtles))
    /\ ~Eats(head(turtles), food)
    /\ SelfHit(turtles)
    /\ Collision("self")

\* none of the three checks fires
TickClear ==
    /\ pc = "move_update"
    /\ ~OutOfBounds(head(turtles))
    /\ ~Eats(head(turtles), food)
    /\ ~SelfHit(turtles)
    /\ IF window = "destroyed"
       THEN Raise
       ELSE /\ BindKeys
            /\ UNCHANGED << snakeVars, scoreVars, winVars, flagVars, histVars,
                            sessVars, screen >>

\* back from the window.update() of score.game_over, then lines 245-250
GameOverReturn ==
    /\ pc = "game_over_update"
    /\ IF window = "destroyed"
       THEN Raise
       ELSE /\ BindKeys
            /\ UNCHANGED << snakeVars, scoreVars, winVars, flagVars, histVars,
                            sessVars, screen >>

\* lines 199 and 252-259: the loop ends and main() returns
LoopExit ==
    /\ pc = "loop"
    /\ ~game_on
    /\ turtles' = << >>
    /\ pc' = AfterMain(MainResult(is_on_close))
    /\ UNCHANGED << heading, pending, prevTail, food, tick, scoreVars,
                    winVars, flagVars, histVars, sessVars, screen, keysBound >>

(***************************************************************************)
(* The replay loop, lines 262-303.                                         *)
(***************************************************************************)
\* lines 269-273 and 299-300
ReplayCheck ==
    /\ pc = "replay_check"
    /\ IF ReplayGuard(is_on_close)
       THEN IF window = "destroyed"
            THEN Raise
            ELSE /\ pc' = "replay_prompt"
                 /\ UNCHANGED << snakeVars, scoreVars, winVars, flagVars,
                                 histVars, sessVars, screen, keysBound >>
       ELSE /\ pc' = "exitonclick"
            /\ UNCHANGED << snakeVars, scoreVars, winVars, flagVars,
                            histVars, sessVars, screen, keysBound >>

\* line 275
IsYes(a) == Lower(Str(a)) = << "y" >>

\* line 282 without its test for None
IsNo_NoCancel(a) == Lower(Str(a)) = << "n" >>

\* line 282
IsNo(a) == Lower(Str(a)) = << "n" >> \/ a = None

\* lines 275-280 and 115-125: the window is cleared and main() is called
ReplayYes(a) ==
    /\ pc = "replay_prompt"
    /\ window = "open"
    /\ IsYes(a)
    /\ session < MaxSessions
    /\ session' = session + 1
    /\ game_on' = TRUE
    /\ made' = FALSE
    /\ speed' = NoSpeed
    /\ keysBound' = FALSE
    /\ tick' = 0
    /\ overs' = 0
    /\ saves' = 0
    /\ summary' = NoSummary
    /\ screen' = "blank"
    /\ pc' = "speed_prompt"
    /\ cause' = "none"
    /\ input' = a
    /\ UNCHANGED << turtles, heading, pending, prevTail, food, score, file,
                    winVars, is_on_close, histVars, registered >>

\* lines 282-286; a prompt whose window was destroyed returns None
ReplayNo(a) ==
    /\ pc = "replay_prompt"
    /\ ~IsYes(a)
    /\ IsNo(a)
    /\ IF window = "destroyed"
       THEN a = None /\ Raise
       ELSE /\ input' = a
            /\ screen' = "farewell"
            /\ pc' = "exitonclick"
            /\ UNCHANGED << snakeVars, scoreVars, winVars, flagVars, histVars,
                            session, registered, speed, made, keysBound >>

\* lines 288-294
ReplayInvalid(a) ==
    /\ pc = "replay_prompt"
    /\ window = "open"
    /\ ~IsYes(a)
    /\ ~IsNo(a)
    /\ input' = a
    /\ screen' = "invalid"
    /\ pc' = "invalid_update"
    /\ UNCHANGED << snakeVars, scoreVars, winVars, flagVars, histVars,
                    session, registered, speed, made, keysBound >>

\* lines 296-297
InvalidReturn ==
    /\ pc = "invalid_update"
    /\ IF window = "destroyed"
       THEN Raise
       ELSE /\ screen' = "blank"
            /\ pc' = "replay_check"
            /\ UNCHANGED << snakeVars, scoreVars, winVars, flagVars, histVars,
                            sessVars, keysBound >>

\* line 303: a click on the window ends the program
ExitClick ==
    /\ pc = "exitonclick"
    /\ window = "open"
    /\ window' = "destroyed"
    /\ pc' = "exited"
    /\ UNCHANGED << snakeVars, scoreVars, destroys, destroyedAt, flagVars,
                    histVars, sessVars, screen, keysBound >>

Next ==
    \/ OnClose
    \/ \E d \in Directions : KeyPress(d)
    \/ SpeedCancel
    \/ \E t \in SpeedInputs : SpeedInvalid(t)
    \/ \E t \in SpeedInputs : SpeedRaises(t)
    \/ HintReturn
    \/ \E t \in SpeedInputs : SpeedValid(t)
    \/ StartReturn
    \/ TickBegin
    \/ TickBoundary
    \/ TickEat
    \/ TickSelfHit
    \/ TickClear
    \/ GameOverReturn
    \/ LoopExit
    \/ ReplayCheck
    \/ \E a \in ReplayInputs : ReplayYes(a)
    \/ \E a \in ReplayInputs : ReplayNo(a)
    \/ \E a \in ReplayInputs : ReplayInvalid(a)
    \/ InvalidReturn
    \/ ExitClick

Spec == Init /\ [][Next]_vars

(***************************************************************************)
(* The checks of one tick, lines 210-242, on chosen positions: the state   *)
(* is the one in which snake.move has just refreshed the display.          *)
(***************************************************************************)
\* a straight snake of n segments whose head is at p
Row(n, p) == [i \in 1..n |-> << p[1] - Step * (n - i), p[2] >>]

\* a snake of n segments whose head, at the origin, lies on its entry k
Fold(n, k) == [i \in 1..n |-> IF i = n THEN << 0, 0 >>
                                ELSE << Step * (i - k), 0 >>]

\* a snake of seven segments that went round a block of two by three
\* cells: its head is back on its last segment
Ring == << << 0, 0 >>, << 20, 0 >>, << 40, 0 >>, << 40, 20 >>,
           << 20, 20 >>, << 0, 20 >>, << 0, 0 >> >>

TickLengths == { 4, SnakeLength }

TickHeads == { << 0, 0 >>, << 484, 0 >>, << 485, 0 >>, << 486, 0 >>,
               << 0 - 485, 0 >>, << 0 - 486, 0 >>, << 0, 385 >>,
               << 0, 386 >>, << 0, 0 - 386 >> }

TickBodies ==
    { Row(n, p) : n \in TickLengths, p \in TickHeads }
        \cup UNION { { Fold(n, k) : k \in 1..(n - 1) } : n \in TickLengths }
        \cup { Ring }

TickFoods == { << 40, 0 >>, << 0, 10 >>, << 480, 0 >> }

\* the window and the flags: playing, closed once, closed twice
TickWindows ==
    { << "open", TRUE, FALSE, 0, "none", "none" >>,
      << "open", FALSE, TRUE, 0, "none", "close" >>,
      << "destroyed", FALSE, TRUE, 1, "move_update", "close" >> }

InitTick ==
    /\ pc = "move_update"
    /\ session = 1
    /\ registered = TRUE
    /\ \E w \in TickWindows :
          /\ window = w[1]
          /\ game_on = w[2]
          /\ is_on_close = w[3]
          /\ destroys = w[4]
          /\ destroyedAt = w[5]
          /\ cause = w[6]
          /\ screen = IF w[3] THEN "farewell" ELSE "play"
    /\ keysBound = TRUE
    /\ turtles \in TickBodies
    /\ heading = "Right"
    /\ pending = "Right"
    /\ prevTail = << turtles[1][1] - Step, turtles[1][2] >>
    /\ food \in TickFoods
    /\ score = IF Len(turtles) > SnakeLength
               THEN Len(turtles) - SnakeLength ELSE 0
    /\ file = << "0" >>
    /\ writable = TRUE
    /\ tick = 2
    /\ overs = 0
    /\ saves = 0
    /\ summary = NoSummary
    /\ speed = MinSpeed
    /\ made = TRUE
    /\ cancelled = FALSE
    /\ closedInPause = FALSE
    /\ input = << "1", "0" >>

NextTick ==
    \/ TickBoundary
    \/ TickEat
    \/ TickSelfHit
    \/ TickClear

TickSpec == InitTick /\ [][NextTick]_vars

(***************************************************************************)
(* Properties.                                                             *)
(***************************************************************************)
TickPcs   == { "loop", "move_update", "game_over_update" }
PromptPcs == { "speed_prompt", "speed_reprompt", "replay_prompt" }

\* this step opens a text prompt
OpensPrompt == pc' \in PromptPcs /\ pc' # pc

\* the persisted best score: an absent record counts as 0
Best(f) == IF f = NoFile THEN 0 ELSE ParseInt(f)

Max(a, b) == IF a > b THEN a ELSE b

\* C1: once on_close has run, no step of a tick increments the score, grows
\* the snake, respawns the food, commits the best score, shows game over or
\* begins another tick.
C1_NoTickEffectAfterClose ==
    [][(is_on_close /\ pc \in TickPcs) =>
          /\ score' = score
          /\ Len(turtles') <= Len(turtles)
          /\ food' = food
          /\ file' = file
          /\ overs' = overs
          /\ tick' = tick]_vars

\* C2 as stated: after a close during the game-over presentation the replay
\* prompt is never shown and the score, the record and the segment list are
\* never modified.
C2_NothingAfterCloseInPause ==
    [][closedInPause =>
          /\ pc' # "replay_prompt"
          /\ score' = score
          /\ file' = file
          /\ turtles' = turtles]_vars

\* C2 amended: after a close during the game-over presentation the replay
\* prompt is never shown, no session is started, the score and the record
\* are never modified, and the segment list is only ever emptied (line 253).
C2_ClosedInPause ==
    [][closedInPause =>
          /\ pc' # "replay_prompt"
          /\ session' = session
          /\ score' = score
          /\ file' = file
          /\ (turtles' = turtles \/ turtles' = << >>)]_vars

\* a replay session ended by a close during its game-over presentation has
\* returned from main() and left the replay loop
C2_Witness ==
    closedInPause /\ session = 2 /\ pc = "exitonclick" /\ turtles = << >>

\* C3: once is_on_close is true no text prompt is opened.
C3_NoPromptAfterClose == [][is_on_close => ~OpensPrompt]_vars

\* C4: a close processed while the replay prompt is pending makes the
\* prompt's outcome a negative answer: main() is not called again.
C4_ClosedPromptIsNo ==
    [][(pc = "replay_prompt" /\ is_on_close) =>
          (session' = session /\ pc' # "speed_prompt")]_vars

\* C5: after a cancelled speed prompt no prompt is opened, no game objects
\* are created and no tick runs.
C5_CancelEndsRun ==
    [][cancelled => (~OpensPrompt /\ (made' => made) /\ tick' = tick)]_vars

C7_NoOperationAfterDestroy == ~(destroys > 0 /\ pc = "TclError")

\* C8: tk_window.destroy() never runs inside the body of the play loop or
\* inside score.game_over.
C8_NoDestroyInTick == destroyedAt \notin { "move_update", "game_over_update" }

C10_RecordWrites ==
    [][/\ saves' > saves =>
             /\ ~game_on'
             /\ pc' = "game_over_update"
             /\ score > Best(file)
             /\ file' = FormatInt(score)
       /\ file' # file =>
             (saves' > saves \/ (file = NoFile /\ file' = << "0" >>))
       /\ Best(file') >= Best(file)]_vars

\* a replay session set a new record
C10_Witness ==
    session = 2 /\ saves = 1 /\ Best(file) = score /\ pc = "game_over_update"

\* this step is the rest of a tick, after the refresh of snake.move
TickStep == pc = "move_update" /\ pc' # "move_update"

\* the head is outside the field, as the claims state it
Breach(p) == p[1] > 485 \/ p[1] < 0 - 485 \/ p[2] > 385 \/ p[2] < 0 - 385

\* the head is on the food, as the claims state it
OnFood(p, f) == DistSq(p, f) < 15 * 15

\* the segment j places behind the head (0 is the head itself)
Behind(ts, j) == ts[Len(ts) - j]

\* the head touches the segment j places behind it
Touches(ts, j) == DistSq(head(ts), Behind(ts, j)) < 10 * 10

\* C11: the score starts at 0; the rest of a tick adds exactly 1 when the
\* consumption check fires and leaves the score alone otherwise; no other
\* step of the play loop changes it.
C11_ScoreFollowsConsumption ==
    [][/\ (pc = "start_update" /\ made') => score' = 0
       /\ TickStep =>
             score' = IF ~Breach(head(turtles)) /\ OnFood(head(turtles), food)
                      THEN score + 1 ELSE score
       /\ (pc \in TickPcs /\ ~TickStep) => score' = score]_vars

\* C12: at every point of the play loop between two ticks, and inside a
\* tick, the snake has 6 + score segments.
C12_LengthIsSixPlusScore ==
    (made /\ pc \in TickPcs) => Len(turtles) = 6 + score

\* three consumption events: nine segments
C12_Witness == made /\ pc = "loop" /\ score = 3 /\ Len(turtles) = 9

\* C13: the rest of a tick ends the session by the boundary check exactly
\* when the advanced head has x > 485, x < -485, y > 385 or y < -385,
\* whatever the food and the body are.
C13_BoundaryEndsSession ==
    [][TickStep =>
          ((cause' = "boundary" /\ ~game_on') <=> Breach(head(turtles)))]_vars

\* a head at x = 486, on the food, ended the session by the boundary check
C13_Witness ==
    /\ pc = "game_over_update"
    /\ cause = "boundary"
    /\ head(turtles)[1] = 486
    /\ OnFood(head(turtles), food)

\* C14 as stated: in a tick that reaches the self-collision check the session
\* ends exactly when the head is within 10 of an entry of turtles[:-2], and
\* the head lying on the last segment alone never ends it: a snake of
\* length 4 is ended only by its head lying on segment index 2.
C14_LastSegmentSpared ==
    [][(TickStep /\ ~Breach(head(turtles)) /\ ~OnFood(head(turtles), food)) =>
          /\ (cause' = "self" /\ ~game_on') <=>
                 \E i \in 1..(Len(turtles) - 2) :
                     DistSq(head(turtles), turtles[i]) < 10 * 10
          /\ cause' = "self" =>
                 \E j \in 2..(Len(turtles) - 2) : Touches(turtles, j)]_vars

\* C14 amended: in a tick that reaches the self-collision check the session
\* ends exactly when the head is within 10 of a segment two or more places
\* behind it, the last segment included; the segment right behind the head
\* never ends it.
C14_SelfHitEndsSession ==
    [][(TickStep /\ ~Breach(head(turtles)) /\ ~OnFood(head(turtles), food)) =>
          ((cause' = "self" /\ ~game_on') <=>
               \E j \in 2..(Len(turtles) - 1) : Touches(turtles, j))]_vars

\* a snake of length 4 ended by its head lying on its last segment only
C14_Witness ==
    /\ pc = "game_over_update"
    /\ cause = "self"
    /\ Len(turtles) = 4
    /\ Touches(turtles, 3)
    /\ ~Touches(turtles, 2)

\* C15: a speed prompt answered with a text leads to play only when the text
\* is a string of decimal digits with a value from 10 to 20; every other text
\* leads to the hint and another prompt, with no game objects made and no
\* tick run.
C15_OtherSpeedReprompts ==
    [][/\ (pc \in SpeedPcs /\ pc' # pc /\ window = "open" /\ input' # None) =>
             IF /\ Len(input') > 0
                /\ IsDecimal(input')
                /\ ParseInt(input') >= 10
                /\ ParseInt(input') <= 20
             THEN pc' = "start_update"
             ELSE pc' = "hint_update" /\ made' = made /\ tick' = tick
       /\ (made' /\ ~made) => speed \in 10..20]_vars

\* C16: with no close observed, the replay prompt answered "y" or "Y" starts
\* a session at its speed prompt; "n", "N" or a cancel shows the farewell and
\* goes to the final wait, which opens no prompt; any other answer shows the
\* invalid-entry message and leads back to the replay prompt in the same
\* session; a session ended by game over leads to the replay prompt.
C16_ReplayAnswers ==
    [][/\ (pc = "replay_prompt" /\ pc' # pc /\ ~is_on_close) =>
             CASE input' \in { << "y" >>, << "Y" >> } ->
                      /\ session' = session + 1
                      /\ game_on'
                      /\ pc' = "speed_prompt"
               [] input' \in { << "n" >>, << "N" >>, None } ->
                      /\ session' = session
                      /\ screen' = "farewell"
                      /\ pc' = "exitonclick"
               [] OTHER ->
                      /\ session' = session
                      /\ screen' = "invalid"
                      /\ pc' = "invalid_update"
       /\ (pc = "invalid_update" /\ pc' # pc /\ ~is_on_close) =>
             (pc' = "replay_check" /\ session' = session)
       /\ (pc = "replay_check" /\ ~is_on_close) => pc' = "replay_prompt"
       /\ (pc = "loop" /\ pc' \notin TickPcs /\ ~is_on_close) =>
             pc' = "replay_check"
       /\ pc = "exitonclick" => pc' \in { "exitonclick", "exited" }]_vars

\* the session started by "y" ended by game over and the replay prompt is
\* open again
C16_Witness ==
    /\ pc = "replay_prompt"
    /\ session = 2
    /\ overs = 1
    /\ ~is_on_close
    /\ made

\* C17: a record that cannot be written does not end the program at game
\* over.
C17_StorageFailureTolerated == ~(pc = "OSError")

\* C18: once a close has been delivered no session is started and no tick
\* begins.
C18_CloseStopsController ==
    [][is_on_close => (session' = session /\ tick' = tick)]_vars

\* C19: the rest of a tick has one outcome, chosen in this order: a head
\* outside the field ends the session and changes neither food, length nor
\* score; otherwise a head within 15 of the food adds a segment and a point
\* and leaves the session running; otherwise food, length and score are
\* left alone and the session ends exactly when the head is within 10 of an
\* entry of turtles[:-2].
C19_OneOutcomePerTick ==
    [][TickStep =>
          IF Breach(head(turtles))
          THEN /\ ~game_on'
               /\ cause' = "boundary"
               /\ score' = score
               /\ Len(turtles') = Len(turtles)
               /\ food' = food
          ELSE IF OnFood(head(turtles), food)
          THEN /\ score' = score + 1
               /\ Len(turtles') = Len(turtles) + 1
               /\ food' \in FoodSpots
               /\ game_on' = game_on
               /\ cause' = cause
               /\ overs' = overs
          ELSE /\ score' = score
               /\ Len(turtles') = Len(turtles)
               /\ food' = food
               /\ (cause' = "self" /\ ~game_on') <=>
                      \E i \in 1..(Len(turtles) - 2) :
                          DistSq(head(turtles), turtles[i]) < 10 * 10]_vars

\* C20: score.game_over runs at most once in a session, in a step that
\* leaves game_on false after a collision; after it, within the session, no
\* tick begins, the score stays and the snake does not move; a session whose
\* only end is a close runs no score.game_over.
C20_GameOverOnce ==
    [][/\ overs' <= 1
       /\ overs' > overs => (~game_on' /\ cause' \in { "boundary", "self" })
       /\ (overs = 1 /\ session' = session) =>
             /\ tick' = tick
             /\ score' = score
             /\ turtles' = turtles \/ turtles' = << >>
       /\ cause' = "close" => overs' = 0]_vars

\* a session ended by a close alone, at its end
C20_Witness ==
    /\ pc = "exitonclick"
    /\ cause = "close"
    /\ tick > 0
    /\ overs = 0
    /\ summary = NoSummary

====
